---- MODULE Spec2Model ----
(***************************************************************************)
(* Superdense coding notebook: superdense_coder builds a circuit for a      *)
(* bit string, simulate_circuit runs it on the shot-based backend and       *)
(* re-keys the measured bit strings with canonical_bitstring.               *)
(*                                                                          *)
(* Strings are sequences of one-character strings.  Qubit indices are       *)
(* 0-based as in the notebook; TLA+ sequences are 1-based.                  *)
(* A state vector is kept exactly: amplitude of basis state x is            *)
(* psi[x] / sqrt(2)^hexp, with psi[x] an integer.                           *)
(***************************************************************************)
EXTENDS Integers, Sequences, FiniteSets, TLC

\* ---------------------------------------------------------------- bounds
MaxPairs == 3
MaxLen == 2 * MaxPairs + 1

\* ------------------------------------------------------------- constants
\* shots the backend takes when run() is given no shots option
DefaultShots == 1024
\* default of simulate_circuit's n_samples parameter
NSamplesDefault == 1000

\* characters of the input: "2" stands for any character int(i,2) rejects
Alphabet == {"0", "1", "2"}
Strings == UNION {[1..m -> Alphabet] : m \in 0..MaxLen}
SampleArgs == {1, NSamplesDefault}

VARIABLES
    pc,          \* control position of the notebook
    assertsOn,   \* FALSE when the interpreter strips assert statements (-O)
    bitstring,   \* argument of superdense_coder
    bit_list,    \* the argument after int(i,2) on every character
    N,           \* number of bit pairs
    bit_arr,     \* bit_list reshaped to N rows of 2
    circuit,     \* the QuantumCircuit under construction / returned
    k,           \* position of the running for loop
    calls,       \* helper calls made so far, with the gates each appended
    failure,     \* exception that ended the run, "none" otherwise
    n_samples,   \* argument of simulate_circuit
    ip,          \* backend: next instruction (1-based)
    psi,         \* backend: integer amplitudes
    hexp,        \* backend: number of 1/sqrt(2) factors
    clmap,       \* backend: classical bit -> measured qubit
    counts,      \* raw counts returned by the backend
    results,     \* mapping returned by simulate_circuit
    canon_in,    \* argument of a direct canonical_bitstring call
    canon_out,   \* its return value
    runs,        \* invocations finished before the current one
    earlier,     \* one finished earlier invocation: input, circuit, keys
    lab_start    \* basis state a directly built two-qubit circuit starts in

vars == <<pc, assertsOn, bitstring, bit_list, N, bit_arr, circuit, k, calls,
          failure, n_samples, ip, psi, hexp, clmap, counts, results,
          canon_in, canon_out, runs, earlier, lab_start>>

buildVars == <<bitstring, bit_list, N, bit_arr, circuit, k, calls>>
simVars == <<n_samples, ip, psi, hexp, clmap, counts, results>>
canonVars == <<canon_in, canon_out>>
extraVars == <<runs, earlier, lab_start>>

\* ------------------------------------------------------------ circuits
NoCircuit == [num_qubits |-> -1, num_clbits |-> -1, data |-> <<>>]
NoRun == [s |-> <<>>, circuit |-> NoCircuit, keys |-> {}, at |-> -1]
EmptyFcn == [e \in {} |-> 0]

Range(s) == {s[j] : j \in DOMAIN s}

\* [a, a+1, ..., b] as a sequence
Upto(a, b) == [j \in 1..(b - a + 1) |-> a + j - 1]

Gate(op, qs) == [op |-> op, qubits |-> qs, clbits |-> <<>>]

AppendGate(c, g) == [c EXCEPT !.data = Append(@, g)]

h(c, a) == AppendGate(c, Gate("h", <<a>>))
x(c, a) == AppendGate(c, Gate("x", <<a>>))
z(c, a) == AppendGate(c, Gate("z", <<a>>))
cx(c, a, b) == AppendGate(c, Gate("cx", <<a, b>>))
barrier(c) == AppendGate(c, Gate("barrier", Upto(0, c.num_qubits - 1)))

\* variant: control and target of the controlled-NOT are exchanged
prepare_bell_state_cx_reversed(c, a, b) == cx(h(c, a), b, a)

\* variant: the controlled-NOT is appended before the Hadamard
prepare_bell_state_cx_first(c, a, b) == h(cx(c, a, b), a)

prepare_bell_state(c, a, b) == cx(h(c, a), a, b)

\* variant: the two tests are exchanged (X on b1, Z on b0)
encode_bits_swapped(c, q, b0, b1) ==
    LET c1 == IF b1 # 0 THEN x(c, q) ELSE c
    IN  IF b0 # 0 THEN z(c1, q) ELSE c1

\* variant: b1 is tested first, Z is appended before X
encode_bits_z_first(c, q, b0, b1) ==
    LET c1 == IF b1 # 0 THEN z(c, q) ELSE c
    IN  IF b0 # 0 THEN x(c1, q) ELSE c1

encode_bits(c, q, b0, b1) ==
    LET c1 == IF b0 # 0 THEN x(c, q) ELSE c
    IN  IF b1 # 0 THEN z(c1, q) ELSE c1

\* variant: the Hadamard is appended before the controlled-NOT
decode_bits_h_first(c, q_a, q_b) == cx(h(c, q_a), q_a, q_b)

\* variant: the Hadamard is applied to Bob's qubit
decode_bits_h_on_b(c, q_a, q_b) == h(cx(c, q_a, q_b), q_b)

\* variant: control and target of the controlled-NOT are exchanged
decode_bits_cx_reversed(c, q_a, q_b) == h(cx(c, q_b, q_a), q_a)

decode_bits(c, q_a, q_b) == h(cx(c, q_a, q_b), q_a)

RECURSIVE MeasureFrom(_, _)
MeasureFrom(c, j) ==
    IF j >= c.num_qubits THEN c
    ELSE MeasureFrom(
           AppendGate(c, [op |-> "measure", qubits |-> <<j>>, clbits |-> <<j>>]),
           j + 1)

\* adds a classical register as wide as the circuit, a barrier, and one
\* measurement per qubit into the classical bit of the same index
measure_all(c) ==
    MeasureFrom(barrier([c EXCEPT !.num_clbits = c.num_qubits]), 0)

\* ------------------------------------------------------ superdense_coder
IsBinaryChar(ch) == ch \in {"0", "1"}
IntBase2(ch) == IF ch = "0" THEN 0 ELSE 1

Call(f, args, before, after) ==
    [fn |-> f, args |-> args, from |-> Len(before.data) + 1, to |-> Len(after.data)]

Init ==
    /\ pc = "idle"
    /\ assertsOn \in BOOLEAN
    /\ bitstring = <<>>
    /\ bit_list = <<>>
    /\ N = 0
    /\ bit_arr = <<>>
    /\ circuit = NoCircuit
    /\ k = 0
    /\ calls = <<>>
    /\ failure = "none"
    /\ n_samples = 0
    /\ ip = 0
    /\ psi = EmptyFcn
    /\ hexp = 0
    /\ clmap = EmptyFcn
    /\ counts = EmptyFcn
    /\ results = EmptyFcn
    /\ canon_in = <<>>
    /\ canon_out = <<>>
    /\ runs = 0
    /\ earlier = NoRun
    /\ lab_start = 0

Raise(e) ==
    /\ pc' = "raised"
    /\ failure' = e

\* circuit = superdense_coder(s)
CallCoder ==
    /\ pc = "idle"
    /\ \E s \in Strings : bitstring' = s
    /\ pc' = "assert"
    /\ UNCHANGED <<assertsOn, bit_list, N, bit_arr, circuit, k, calls, failure>>
    /\ UNCHANGED simVars
    /\ UNCHANGED canonVars
    /\ UNCHANGED extraVars

\* assert(len(bitstring) % 2 == 0)
AssertEven ==
    /\ pc = "assert"
    /\ IF assertsOn /\ Len(bitstring) % 2 # 0
       THEN Raise("AssertionError")
       ELSE pc' = "convert" /\ UNCHANGED failure
    /\ UNCHANGED <<assertsOn>>
    /\ UNCHANGED buildVars
    /\ UNCHANGED simVars
    /\ UNCHANGED canonVars
    /\ UNCHANGED extraVars

\* bitstring = [int(i,2) for i in bitstring]
Convert ==
    /\ pc = "convert"
    /\ IF \E j \in DOMAIN bitstring : ~IsBinaryChar(bitstring[j])
       THEN Raise("ValueError") /\ UNCHANGED bit_list
       ELSE /\ bit_list' = [j \in DOMAIN bitstring |-> IntBase2(bitstring[j])]
            /\ pc' = "reshape"
            /\ UNCHANGED failure
    /\ UNCHANGED <<assertsOn, bitstring, N, bit_arr, circuit, k, calls>>
    /\ UNCHANGED simVars
    /\ UNCHANGED canonVars
    /\ UNCHANGED extraVars

\* variant: reshape truncates instead of failing
ReshapeLenient(list, n) == Len(list) >= n * 2

ReshapeOk(list, n) == Len(list) = n * 2

\* variant: the rows are filled column by column (reshape(2,N) transposed)
ReshapeColumnMajor ==
    /\ pc = "reshape"
    /\ N' = Len(bit_list) \div 2
    /\ IF ReshapeOk(bit_list, N')
       THEN /\ bit_arr' = [r \in 1..N' |-> <<bit_list[r], bit_list[N' + r]>>]
            /\ pc' = "registers"
            /\ UNCHANGED failure
       ELSE Raise("ValueError") /\ UNCHANGED bit_arr
    /\ UNCHANGED <<assertsOn, bitstring, bit_list, circuit, k, calls>>
    /\ UNCHANGED simVars
    /\ UNCHANGED canonVars
    /\ UNCHANGED extraVars

\* N = len(bitstring)//2 ; bit_arr = np.array(bitstring).reshape(N,2)
Reshape ==
    /\ pc = "reshape"
    /\ N' = Len(bit_list) \div 2
    /\ IF ReshapeOk(bit_list, N')
       THEN /\ bit_arr' = [r \in 1..N' |-> <<bit_list[2 * r - 1], bit_list[2 * r]>>]
            /\ pc' = "registers"
            /\ UNCHANGED failure
       ELSE Raise("ValueError") /\ UNCHANGED bit_arr
    /\ UNCHANGED <<assertsOn, bitstring, bit_list, circuit, k, calls>>
    /\ UNCHANGED simVars
    /\ UNCHANGED canonVars
    /\ UNCHANGED extraVars

\* variant: the circuit is created over Alice's register only
RegistersOnlyA ==
    /\ pc = "registers"
    /\ circuit' = [num_qubits |-> N, num_clbits |-> 0, data |-> <<>>]
    /\ pc' = "prepare"
    /\ k' = 0
    /\ UNCHANGED <<assertsOn, bitstring, bit_list, N, bit_arr, calls, failure>>
    /\ UNCHANGED simVars
    /\ UNCHANGED canonVars
    /\ UNCHANGED extraVars

\* qreg_a, qreg_b = QuantumRegister(N,..) ; circuit = QuantumCircuit(qreg_a, qreg_b)
Registers ==
    /\ pc = "registers"
    /\ circuit' = [num_qubits |-> N + N, num_clbits |-> 0, data |-> <<>>]
    /\ pc' = "prepare"
    /\ k' = 0
    /\ UNCHANGED <<assertsOn, bitstring, bit_list, N, bit_arr, calls, failure>>
    /\ UNCHANGED simVars
    /\ UNCHANGED canonVars
    /\ UNCHANGED extraVars

\* QuantumRegister(0, ..): releases of the circuit library of the notebook's
\* time refuse a register of size zero, later ones accept it
RegistersRejectZero ==
    /\ pc = "registers"
    /\ N = 0
    /\ Raise("CircuitError")
    /\ UNCHANGED <<assertsOn>>
    /\ UNCHANGED buildVars
    /\ UNCHANGED simVars
    /\ UNCHANGED canonVars
    /\ UNCHANGED extraVars

\* variant: the second range does not advance
ZipPairsFixedB(n) == [j \in 1..n |-> <<j - 1, n>>]

\* zip(range(0,N), range(N,2*N)) as a sequence of pairs <<q_a, q_b>>
ZipPairs(n) == [j \in 1..n |-> <<j - 1, n + j - 1>>]

\* for q_a, q_b in zip(range(0,N),range(N,2*N)): prepare_bell_state(circuit, q_a, q_b)
PrepareStep ==
    /\ pc = "prepare"
    /\ k < N
    /\ LET q_a == ZipPairs(N)[k + 1][1]
           q_b == ZipPairs(N)[k + 1][2]
       IN  /\ circuit' = prepare_bell_state(circuit, q_a, q_b)
           /\ calls' = Append(calls, Call("prepare_bell_state", <<q_a, q_b>>,
                                          circuit, circuit'))
    /\ k' = k + 1
    /\ UNCHANGED <<pc, assertsOn, bitstring, bit_list, N, bit_arr, failure>>
    /\ UNCHANGED simVars
    /\ UNCHANGED canonVars
    /\ UNCHANGED extraVars

\* circuit.barrier() after the preparation loop
Barrier1 ==
    /\ pc = "prepare"
    /\ k >= N
    /\ circuit' = barrier(circuit)
    /\ pc' = "encode"
    /\ k' = 0
    /\ UNCHANGED <<assertsOn, bitstring, bit_list, N, bit_arr, calls, failure>>
    /\ UNCHANGED simVars
    /\ UNCHANGED canonVars
    /\ UNCHANGED extraVars

\* variant: the encoding loop passes Bob's qubit of the pair
EncodeStepOnB ==
    /\ pc = "encode"
    /\ k < Len(bit_arr)
    /\ circuit' = encode_bits(circuit, N + k, bit_arr[k + 1][1], bit_arr[k + 1][2])
    /\ calls' = Append(calls, Call("encode_bits",
                                   <<N + k, bit_arr[k + 1][1], bit_arr[k + 1][2]>>,
                                   circuit, circuit'))
    /\ k' = k + 1
    /\ UNCHANGED <<pc, assertsOn, bitstring, bit_list, N, bit_arr, failure>>
    /\ UNCHANGED simVars
    /\ UNCHANGED canonVars
    /\ UNCHANGED extraVars

\* for q_a, bit_pair in enumerate(bit_arr): encode_bits(circuit, q_a, bit_pair[0], bit_pair[1])
EncodeStep ==
    /\ pc = "encode"
    /\ k < Len(bit_arr)
    /\ circuit' = encode_bits(circuit, k, bit_arr[k + 1][1], bit_arr[k + 1][2])
    /\ calls' = Append(calls, Call("encode_bits",
                                   <<k, bit_arr[k + 1][1], bit_arr[k + 1][2]>>,
                                   circuit, circuit'))
    /\ k' = k + 1
    /\ UNCHANGED <<pc, assertsOn, bitstring, bit_list, N, bit_arr, failure>>
    /\ UNCHANGED simVars
    /\ UNCHANGED canonVars
    /\ UNCHANGED extraVars

\* circuit.barrier() after the encoding loop
Barrier2 ==
    /\ pc = "encode"
    /\ k >= Len(bit_arr)
    /\ circuit' = barrier(circuit)
    /\ pc' = "decode"
    /\ k' = 0
    /\ UNCHANGED <<assertsOn, bitstring, bit_list, N, bit_arr, calls, failure>>
    /\ UNCHANGED simVars
    /\ UNCHANGED canonVars
    /\ UNCHANGED extraVars

\* for q_a, q_b in zip(range(0,N),range(N,2*N)): decode_bits(circuit, q_a, q_b)
DecodeStep ==
    /\ pc = "decode"
    /\ k < N
    /\ LET q_a == ZipPairs(N)[k + 1][1]
           q_b == ZipPairs(N)[k + 1][2]
       IN  /\ circuit' = decode_bits(circuit, q_a, q_b)
           /\ calls' = Append(calls, Call("decode_bits", <<q_a, q_b>>,
                                          circuit, circuit'))
    /\ k' = k + 1
    /\ UNCHANGED <<pc, assertsOn, bitstring, bit_list, N, bit_arr, failure>>
    /\ UNCHANGED simVars
    /\ UNCHANGED canonVars
    /\ UNCHANGED extraVars

\* circuit.measure_all() ; return circuit
MeasureAndReturn ==
    /\ pc = "decode"
    /\ k >= N
    /\ circuit' = measure_all(circuit)
    /\ pc' = "built"
    /\ UNCHANGED <<assertsOn, bitstring, bit_list, N, bit_arr, k, calls, failure>>
    /\ UNCHANGED simVars
    /\ UNCHANGED canonVars
    /\ UNCHANGED extraVars

\* ---------------------------------------------------- canonical_bitstring
RECURSIVE CanonLoopSwapped(_, _, _, _)
\* variant: the two appends of the loop body are exchanged
CanonLoopSwapped(bs, n, i, bs2) ==
    IF i >= n THEN bs2
    ELSE CanonLoopSwapped(bs, n, i + 1, Append(Append(bs2, bs[i + 1]), bs[i + n + 1]))

RECURSIVE CanonLoopDup(_, _, _, _)
\* variant: the second append repeats the index of the first
CanonLoopDup(bs, n, i, bs2) ==
    IF i >= n THEN bs2
    ELSE CanonLoopDup(bs, n, i + 1, Append(Append(bs2, bs[i + n + 1]), bs[i + n + 1]))

RECURSIVE CanonLoopFixedB(_, _, _, _)
\* variant: the first append leaves out the loop index (bs[N])
CanonLoopFixedB(bs, n, i, bs2) ==
    IF i >= n THEN bs2
    ELSE CanonLoopFixedB(bs, n, i + 1, Append(Append(bs2, bs[n + 1]), bs[i + 1]))

RECURSIVE CanonLoop(_, _, _, _)
\* for i in range(N): bs2.append(bs[i+N]); bs2.append(bs[i])
CanonLoop(bs, n, i, bs2) ==
    IF i >= n THEN bs2
    ELSE CanonLoop(bs, n, i + 1, Append(Append(bs2, bs[i + n + 1]), bs[i + 1]))

\* variant: the unpaired last character of an odd-length input is kept
canonical_bitstring_keep_tail(bs) ==
    CanonLoop(bs, Len(bs) \div 2, 0, <<>>)
        \o (IF Len(bs) % 2 = 1 THEN <<bs[Len(bs)]>> ELSE <<>>)

canonical_bitstring(bs) == CanonLoop(bs, Len(bs) \div 2, 0, <<>>)

\* variant: the slice stops before the first character (bs[:0:-1])
ReverseSkipFirst(bs) == [j \in 1..(Len(bs) - 1) |-> bs[Len(bs) + 1 - j]]

\* variant: the raw key is passed on without reversal
ReverseOmitted(bs) == bs

\* bs[::-1]
Reverse(bs) == [j \in 1..Len(bs) |-> bs[Len(bs) + 1 - j]]

\* -------------------------------------------------------------- backend
Pow2(e) == 2 ^ e
Bit(b, q) == (b \div Pow2(q)) % 2
Flip(b, q) == IF Bit(b, q) = 1 THEN b - Pow2(q) ELSE b + Pow2(q)
BitChar(v) == IF v = 0 THEN "0" ELSE "1"

ZeroState(nq) == [b \in 0..(Pow2(nq) - 1) |-> IF b = 0 THEN 1 ELSE 0]

\* amplitudes after one instruction (h leaves out its factor 1/sqrt(2))
ApplyOp(ins, amp) ==
    LET q == ins.qubits[1]
    IN  CASE ins.op = "h" ->
               [b \in DOMAIN amp |->
                   IF Bit(b, q) = 0 THEN amp[b] + amp[Flip(b, q)]
                   ELSE amp[Flip(b, q)] - amp[b]]
          [] ins.op = "x" -> [b \in DOMAIN amp |-> amp[Flip(b, q)]]
          [] ins.op = "z" ->
               [b \in DOMAIN amp |-> IF Bit(b, q) = 1 THEN 0 - amp[b] ELSE amp[b]]
          [] ins.op = "cx" ->
               [b \in DOMAIN amp |->
                   IF Bit(b, q) = 1 THEN amp[Flip(b, ins.qubits[2])] ELSE amp[b]]
          [] OTHER -> amp

\* basis states a measurement can give
Support(amp) == {b \in DOMAIN amp : amp[b] # 0}

\* key of the counts dictionary for basis state b: classical bit 0 is the
\* last character
RawKey(b, cm, ncl) ==
    [p \in 1..ncl |-> IF cm[ncl - p] < 0 THEN "0" ELSE BitChar(Bit(b, cm[ncl - p]))]

RECURSIVE Distributions(_, _)
\* every dictionary {key: count >= 1} over keys of S whose counts add up to n
Distributions(S, n) ==
    IF S = {} THEN (IF n = 0 THEN {EmptyFcn} ELSE {})
    ELSE LET e == CHOOSE e \in S : TRUE
         IN  UNION {
               {IF c = 0 THEN d ELSE (e :> c) @@ d : d \in Distributions(S \ {e}, n - c)}
               : c \in 0..n}

CanonKey(bs) == canonical_bitstring(Reverse(bs))

\* variant: the comprehension's entries are added to the mapping of the
\* previous call instead of a new one
RekeyingsAccumulating(cnt) ==
    LET keys == {CanonKey(bs) : bs \in DOMAIN cnt}
        picks == {p \in [keys -> DOMAIN cnt] : \A kk \in keys : CanonKey(p[kk]) = kk}
    IN  {[kk \in keys |-> cnt[p[kk]]] @@ results : p \in picks}

\* { canonical_bitstring(bs[::-1]) : count for bs, count in counts.items() }
\* (of two raw keys with the same canonical key, the one iterated last stays)
Rekeyings(cnt) ==
    LET keys == {CanonKey(bs) : bs \in DOMAIN cnt}
        picks == {p \in [keys -> DOMAIN cnt] : \A kk \in keys : CanonKey(p[kk]) = kk}
    IN  {[kk \in keys |-> cnt[p[kk]]] : p \in picks}

\* canonical_bitstring(bs) called on its own
CallCanonical ==
    /\ pc = "idle"
    /\ \E bs \in Strings :
          /\ canon_in' = bs
          /\ canon_out' = canonical_bitstring(bs)
    /\ pc' = "canon_done"
    /\ UNCHANGED <<assertsOn, failure>>
    /\ UNCHANGED buildVars
    /\ UNCHANGED simVars
    /\ UNCHANGED extraVars

\* ------------------------------------------------------ simulate_circuit
\* results = simulate_circuit(circuit, n): transpile and start the run
SimStart ==
    /\ pc = "built"
    /\ \E n \in SampleArgs : n_samples' = n
    /\ ip' = 1
    /\ psi' = ZeroState(circuit.num_qubits)
    /\ hexp' = 0
    /\ clmap' = [c \in 0..(circuit.num_clbits - 1) |-> -1]
    /\ pc' = "running"
    /\ UNCHANGED <<assertsOn, failure, counts, results>>
    /\ UNCHANGED buildVars
    /\ UNCHANGED canonVars
    /\ UNCHANGED extraVars

\* a circuit without qubits: the backend may refuse to run it
SimRejectEmpty ==
    /\ pc = "built"
    /\ circuit.num_qubits = 0
    /\ pc' = "sim_raised"
    /\ failure' = "AerError"
    /\ UNCHANGED <<assertsOn>>
    /\ UNCHANGED buildVars
    /\ UNCHANGED simVars
    /\ UNCHANGED canonVars
    /\ UNCHANGED extraVars

\* the backend executes the next instruction of the circuit
ExecStep ==
    /\ pc = "running"
    /\ ip <= Len(circuit.data)
    /\ LET ins == circuit.data[ip]
       IN  /\ psi' = ApplyOp(ins, psi)
           /\ hexp' = IF ins.op = "h" THEN hexp + 1 ELSE hexp
           /\ clmap' = IF ins.op = "measure"
                       THEN [clmap EXCEPT ![ins.clbits[1]] = ins.qubits[1]]
                       ELSE clmap
    /\ ip' = ip + 1
    /\ UNCHANGED <<pc, assertsOn, failure, n_samples, counts, results>>
    /\ UNCHANGED buildVars
    /\ UNCHANGED canonVars
    /\ UNCHANGED extraVars

\* shots taken by sim.run(tqc, n_samples): the second positional parameter of
\* run() is not the shot count, so the backend's default applies
ShotsTaken(n) == DefaultShots

\* counts = ....result().get_counts(circuit) ; return {canonical...: count}
SampleAndReturn ==
    /\ pc = "running"
    /\ ip > Len(circuit.data)
    /\ counts' \in Distributions(
                     {RawKey(b, clmap, circuit.num_clbits) : b \in Support(psi)},
                     ShotsTaken(n_samples))
    /\ results' \in Rekeyings(counts')
    /\ pc' = "done"
    /\ UNCHANGED <<assertsOn, failure, n_samples, ip, psi, hexp, clmap>>
    /\ UNCHANGED buildVars
    /\ UNCHANGED canonVars
    /\ UNCHANGED extraVars

Next ==
    \/ CallCoder
    \/ AssertEven
    \/ Convert
    \/ Reshape
    \/ Registers
    \/ RegistersRejectZero
    \/ PrepareStep
    \/ Barrier1
    \/ EncodeStep
    \/ Barrier2
    \/ DecodeStep
    \/ MeasureAndReturn
    \/ SimStart
    \/ SimRejectEmpty
    \/ ExecStep
    \/ SampleAndReturn
    \/ CallCanonical

Spec == Init /\ [][Next]_vars

\* ================================================================ claims
IsBinary(bs) == \A j \in DOMAIN bs : IsBinaryChar(bs[j])
IsEven(bs) == Len(bs) % 2 = 0

\* the backend has executed every instruction of the circuit
Measured == pc \in {"running", "done"} /\ ip > Len(circuit.data)

\* C1: for each of the four bit pairs, prepare_bell_state, encode_bits on
\* carrier A and decode_bits starting from |00> leave exactly one basis state
\* with non-zero amplitude (probability 1), and the measured pair, once
\* canonicalized, is the encoded pair (b0, b1).
C1_PairRoundTripCertain ==
    (Measured /\ N = 1) =>
        \E b \in DOMAIN psi :
            /\ Support(psi) = {b}
            /\ psi[b] * psi[b] = Pow2(hexp)
            /\ CanonKey(RawKey(b, clmap, circuit.num_clbits)) = bitstring

C1_Witness ==
    /\ Measured
    /\ pc = "running"
    /\ bitstring = <<"1", "0">>
    /\ Support(psi) = {2}

C3_OddLengthRejected ==
    (pc # "idle" /\ ~IsEven(bitstring)) =>
        /\ pc \in {"assert", "convert", "reshape", "raised"}
        /\ circuit = NoCircuit
        /\ calls = <<>>
        /\ (pc = "raised" => failure \in {"AssertionError", "ValueError"})
        /\ (assertsOn => pc \in {"assert", "raised"})

C3_Witness ==
    /\ pc = "raised"
    /\ bitstring = <<"1", "0", "1">>
    /\ failure = "AssertionError"
    /\ circuit = NoCircuit

\* C4: for an argument bs of even length 2N, canonical_bitstring(bs) has
\* bs[i+N] at position 2i and bs[i] at position 2i+1 for every i in 0..N-1
\* (0-based), and the argument is still the string that was passed.
C4_CanonicalPositions ==
    (pc = "canon_done" /\ IsEven(canon_in)) =>
        LET n == Len(canon_in) \div 2
        IN  /\ Len(canon_out) = 2 * n
            /\ \A i \in 0..(n - 1) :
                  /\ canon_out[2 * i + 1] = canon_in[i + n + 1]
                  /\ canon_out[2 * i + 2] = canon_in[i + 1]

C4_Witness ==
    /\ pc = "canon_done"
    /\ canon_in = <<"0", "1", "1", "0", "0", "0">>
    /\ canon_out = <<"0", "0", "0", "1", "0", "1">>


\* the inverse index mapping: input position i+N takes output position 2i,
\* input position i takes output position 2i+1 (0-based)
InverseCanonical(out) ==
    LET n == Len(out) \div 2
    IN  [j \in 1..Len(out) |-> IF j > n THEN out[2 * (j - n) - 1] ELSE out[2 * j]]

BitStrings(len) == [1..len -> {"0", "1"}]

\* C5: on bitstrings of an even length canonical_bitstring is a bijection:
\* no other bitstring of that length has the same result, every bitstring of
\* that length is a result, and the inverse index mapping applied to the
\* result gives the argument back.
C5_CanonicalBijection ==
    (pc = "canon_done" /\ IsEven(canon_in) /\ IsBinary(canon_in)) =>
        /\ InverseCanonical(canon_out) = canon_in
        /\ \A other \in BitStrings(Len(canon_in)) :
              other # canon_in => canonical_bitstring(other) # canon_out
        /\ \E pre \in BitStrings(Len(canon_in)) :
              canonical_bitstring(pre) = canon_in

C5_Witness ==
    /\ pc = "canon_done"
    /\ canon_in = <<"1", "0", "0", "1">>
    /\ canon_out = <<"0", "1", "1", "0">>
    /\ InverseCanonical(canon_out) = canon_in

\* instructions a step appended to the circuit
Added(before, after) == SubSeq(after.data, Len(before.data) + 1, Len(after.data))
KeepsPrefix(before, after) ==
    /\ Len(after.data) >= Len(before.data)
    /\ SubSeq(after.data, 1, Len(before.data)) = before.data
    /\ after.num_qubits = before.num_qubits
    /\ after.num_clbits = before.num_clbits

\* C6: a call encode_bits(circuit, q, b0, b1) appends X on q exactly when b0
\* is true and Z on q exactly when b1 is true, nothing else, and for (0, 0)
\* the circuit is unchanged.
C6_EncodeAppendsXiffB0ZiffB1 ==
    [][(pc = "encode" /\ k < Len(bit_arr)) =>
         LET call == calls'[Len(calls')]
             q == call.args[1]
             b0 == call.args[2]
             b1 == call.args[3]
             added == Added(circuit, circuit')
         IN  /\ call.fn = "encode_bits"
             /\ b0 = bit_arr[k + 1][1]
             /\ b1 = bit_arr[k + 1][2]
             /\ KeepsPrefix(circuit, circuit')
             /\ (Gate("x", <<q>>) \in Range(added)) <=> (b0 # 0)
             /\ (Gate("z", <<q>>) \in Range(added)) <=> (b1 # 0)
             /\ Range(added) \subseteq {Gate("x", <<q>>), Gate("z", <<q>>)}
             /\ Len(added) = (IF b0 # 0 THEN 1 ELSE 0) + (IF b1 # 0 THEN 1 ELSE 0)
             /\ (b0 = 0 /\ b1 = 0) => circuit' = circuit
      ]_vars

C6_Witness ==
    /\ pc = "encode"
    /\ bitstring = <<"1", "0", "0", "0", "0", "1">>
    /\ Len(calls) = 6
    /\ calls[4].fn = "encode_bits" /\ calls[4].to = calls[4].from
    /\ circuit.data[calls[4].from] = Gate("x", <<0>>)
    /\ calls[5].fn = "encode_bits" /\ calls[5].to < calls[5].from
    /\ circuit.data[calls[6].from] = Gate("z", <<2>>)

BarrierPositions(c) == {j \in DOMAIN c.data : c.data[j].op = "barrier"}
Min(S) == CHOOSE m \in S : \A o \in S : m <= o

\* C7: in the circuit of superdense_coder every instruction between the first
\* and the second barrier, and every encode_bits call, has only Alice's
\* qubits 0..N-1 as operands.
C7_EncodeOnCarrierAOnly ==
    (pc \in {"decode", "built", "running", "done", "sim_raised"}) =>
        LET bp == BarrierPositions(circuit)
            first == Min(bp)
            second == Min(bp \ {first})
        IN  /\ Cardinality(bp) >= 2
            /\ \A j \in (first + 1)..(second - 1) :
                  \A q \in Range(circuit.data[j].qubits) : q \in 0..(N - 1)
            /\ \A j \in DOMAIN calls :
                  calls[j].fn = "encode_bits" =>
                      /\ calls[j].args[1] \in 0..(N - 1)
                      /\ first < calls[j].from
                      /\ calls[j].to < second

C7_Witness ==
    /\ pc = "built"
    /\ bitstring = <<"1", "1", "0", "1">>
    /\ BarrierPositions(circuit) = {5, 9, 14}
    /\ circuit.data[6] = Gate("x", <<0>>)
    /\ circuit.data[8] = Gate("z", <<1>>)

\* C8: a call decode_bits(circuit, q_a, q_b) appends exactly two instructions,
\* first the controlled-NOT with control q_a and target q_b, then the Hadamard
\* on q_a, whatever bits were encoded.
C8_DecodeAppendsCxThenH ==
    [][(pc = "decode" /\ k < N) =>
         LET call == calls'[Len(calls')]
             q_a == call.args[1]
             q_b == call.args[2]
         IN  /\ call.fn = "decode_bits"
             /\ KeepsPrefix(circuit, circuit')
             /\ Added(circuit, circuit') =
                  <<Gate("cx", <<q_a, q_b>>), Gate("h", <<q_a>>)>>
      ]_vars

C8_Witness ==
    /\ pc = "decode"
    /\ bitstring = <<"1", "1", "0", "0">>
    /\ Len(calls) = 6
    /\ calls[6] = [fn |-> "decode_bits", args |-> <<1, 3>>, from |-> 11, to |-> 12]
    /\ circuit.data[11] = Gate("cx", <<1, 3>>)
    /\ circuit.data[12] = Gate("h", <<1>>)


BuildPcs == {"assert", "convert", "reshape", "registers", "prepare", "encode", "decode"}
BuiltPcs == {"built", "running", "done", "sim_raised"}

\* a step of superdense_coder other than a raised exception
BuildProgress ==
    \/ (AssertEven /\ pc' # "raised")
    \/ (Convert /\ pc' # "raised")
    \/ (Reshape /\ pc' # "raised")
    \/ Registers
    \/ PrepareStep \/ Barrier1 \/ EncodeStep \/ Barrier2 \/ DecodeStep
    \/ MeasureAndReturn

\* construction of the circuit for the current argument goes through: it has
\* not raised, it can take its next step, and once returned the circuit has
\* one qubit per input character
ConstructionCompletes ==
    /\ pc # "raised"
    /\ pc \in BuildPcs => ENABLED BuildProgress
    /\ pc \in BuiltPcs => /\ circuit # NoCircuit
                          /\ circuit.num_qubits = 2 * (Len(bitstring) \div 2)
                          /\ N = Len(bitstring) \div 2

\* C9 (as stated): for every even-length string of '0'/'1' characters, the
\* empty string included, superdense_coder completes and returns a circuit
\* over 2N qubits.
C9_Original_EveryEvenBinaryCompletes ==
    (pc \in BuildPcs \cup BuiltPcs \cup {"raised"}
       /\ IsEven(bitstring) /\ IsBinary(bitstring))
        => ConstructionCompletes

\* C9 (amended): for every non-empty even-length string of '0'/'1' characters
\* superdense_coder completes and returns a circuit over 2N qubits; for the
\* empty string it either does the same with no qubits or fails creating the
\* zero-size register.
C9_NonEmptyEvenBinaryCompletes ==
    (pc \in BuildPcs \cup BuiltPcs \cup {"raised"}
       /\ IsEven(bitstring) /\ IsBinary(bitstring))
        => IF Len(bitstring) > 0
           THEN ConstructionCompletes
           ELSE \/ ConstructionCompletes
                \/ (pc = "raised" /\ failure = "CircuitError" /\ circuit = NoCircuit)

C9_Witness ==
    /\ pc = "built"
    /\ bitstring = <<"1", "0", "1", "1", "0", "0">>
    /\ circuit.num_qubits = 6
    /\ failure = "none"

\* calls of helper f that touch a qubit of pair i
PairCalls(f, i) ==
    {j \in DOMAIN calls :
        /\ calls[j].fn = f
        /\ IF f = "encode_bits" THEN calls[j].args[1] \in {i, i + N}
           ELSE Range(calls[j].args) \cap {i, i + N} # {}}

InCall(j, c) == c.from <= j /\ j <= c.to

\* C10: in a circuit returned by superdense_coder every pair i is prepared by
\* exactly one prepare_bell_state call, encoded by exactly one encode_bits
\* call and decoded by exactly one decode_bits call, in that order; every
\* gate on its qubits belongs to one of the three; each of its two qubits is
\* measured exactly once, after the decode gates, and nothing follows the
\* measurement on that qubit.
C10_PairLifecycle ==
    pc \in BuiltPcs =>
        \A i \in 0..(N - 1) :
            /\ Cardinality(PairCalls("prepare_bell_state", i)) = 1
            /\ Cardinality(PairCalls("encode_bits", i)) = 1
            /\ Cardinality(PairCalls("decode_bits", i)) = 1
            /\ LET P == calls[CHOOSE j \in PairCalls("prepare_bell_state", i) : TRUE]
                   E == calls[CHOOSE j \in PairCalls("encode_bits", i) : TRUE]
                   D == calls[CHOOSE j \in PairCalls("decode_bits", i) : TRUE]
                   data == circuit.data
               IN  /\ P.args = <<i, i + N>>
                   /\ E.args[1] = i
                   /\ D.args = <<i, i + N>>
                   /\ P.from <= P.to
                   /\ P.to < E.from
                   /\ E.to < D.from
                   /\ D.from < D.to
                   /\ \A j \in DOMAIN data :
                         (data[j].op \notin {"barrier", "measure"}
                            /\ Range(data[j].qubits) \cap {i, i + N} # {})
                           => (InCall(j, P) \/ InCall(j, E) \/ InCall(j, D))
                   /\ \A q \in {i, i + N} :
                         LET ms == {j \in DOMAIN data :
                                      data[j].op = "measure" /\ data[j].qubits = <<q>>}
                         IN  /\ Cardinality(ms) = 1
                             /\ \A m \in ms :
                                   /\ m > D.to
                                   /\ \A j \in (m + 1)..Len(data) :
                                         q \notin Range(data[j].qubits)

C10_Witness ==
    /\ pc = "built"
    /\ bitstring = <<"0", "1", "1", "1">>
    /\ PairCalls("prepare_bell_state", 1) = {2}
    /\ PairCalls("encode_bits", 1) = {4}
    /\ PairCalls("decode_bits", 1) = {6}
    /\ calls[4].to = calls[4].from + 1
    /\ circuit.data[Len(circuit.data)] =
         [op |-> "measure", qubits |-> <<3>>, clbits |-> <<3>>]

RECURSIVE SumCounts(_)
\* sum of the counts of a mapping
SumCounts(f) ==
    IF DOMAIN f = {} THEN 0
    ELSE LET e == CHOOSE e \in DOMAIN f : TRUE
         IN  f[e] + SumCounts([o \in DOMAIN f \ {e} |-> f[o]])

\* C11 (as stated): simulate_circuit(circuit, n_samples=n) samples the circuit
\* exactly n times, so the counts of the returned mapping add up to n.
C11_CountsSumToNSamples ==
    pc = "done" => SumCounts(results) = n_samples

\* ------------------------------------------------ repeated invocations
RunLen == 2
MaxRuns == 2
ShortStrings == UNION {[1..m -> Alphabet] : m \in 0..RunLen}

\* circuit = superdense_coder(s), inputs of the repeated-invocation runs
CallCoderShort ==
    /\ pc = "idle"
    /\ \E s \in ShortStrings : bitstring' = s
    /\ pc' = "assert"
    /\ UNCHANGED <<assertsOn, bit_list, N, bit_arr, circuit, k, calls, failure>>
    /\ UNCHANGED simVars
    /\ UNCHANGED canonVars
    /\ UNCHANGED extraVars

\* the two cells are executed again: the locals of the finished calls are
\* gone, the notebook's globals circuit and results keep their values
NextInvocation ==
    /\ pc \in {"done", "raised", "sim_raised"}
    /\ runs < MaxRuns
    /\ runs' = runs + 1
    /\ earlier' \in {earlier} \cup
                    (IF pc = "done"
                     THEN {[s |-> bitstring, circuit |-> circuit,
                            keys |-> DOMAIN results, at |-> runs]}
                     ELSE {})
    /\ pc' = "idle"
    /\ bitstring' = <<>>
    /\ bit_list' = <<>>
    /\ N' = 0
    /\ bit_arr' = <<>>
    /\ k' = 0
    /\ calls' = <<>>
    /\ failure' = "none"
    /\ n_samples' = 0
    /\ ip' = 0
    /\ psi' = EmptyFcn
    /\ hexp' = 0
    /\ clmap' = EmptyFcn
    /\ counts' = EmptyFcn
    /\ UNCHANGED <<assertsOn, circuit, results, lab_start>>
    /\ UNCHANGED canonVars

NextRuns ==
    \/ CallCoderShort
    \/ AssertEven
    \/ Convert
    \/ Reshape
    \/ Registers
    \/ RegistersRejectZero
    \/ PrepareStep
    \/ Barrier1
    \/ EncodeStep
    \/ Barrier2
    \/ DecodeStep
    \/ MeasureAndReturn
    \/ SimStart
    \/ SimRejectEmpty
    \/ ExecStep
    \/ SampleAndReturn
    \/ NextInvocation

SpecRuns == Init /\ [][NextRuns]_vars

\* C12: the circuit superdense_coder returns for s and the key set
\* simulate_circuit returns for it are the same as in an earlier invocation
\* with the same s, whatever was run in between.
C12_SameInputSameCircuitAndKeys ==
    (earlier # NoRun /\ pc \in BuiltPcs /\ bitstring = earlier.s) =>
        /\ circuit = earlier.circuit
        /\ pc = "done" => DOMAIN results = earlier.keys

C12_Witness ==
    /\ pc = "done"
    /\ runs = 2
    /\ earlier.at = 0
    /\ bitstring = <<"1", "1">>
    /\ earlier.s = bitstring
    /\ earlier.keys = {bitstring}
    /\ DOMAIN results = {bitstring}

\* C13: after prepare_bell_state, encode_bits and decode_bits the measured
\* bit of carrier A (qubit i) is b1 and the measured bit of carrier B (qubit
\* i+N) is b0, and the canonical key has carrier B's bit before carrier A's.
C13_ReadoutSwapped ==
    Measured =>
        \A b \in Support(psi) :
            LET qs == Reverse(RawKey(b, clmap, circuit.num_clbits))
                key == canonical_bitstring(qs)
            IN  \A i \in 0..(N - 1) :
                    /\ Bit(b, i) = bit_arr[i + 1][2]
                    /\ Bit(b, i + N) = bit_arr[i + 1][1]
                    /\ qs[i + 1] = BitChar(Bit(b, i))
                    /\ qs[i + N + 1] = BitChar(Bit(b, i + N))
                    /\ key[2 * i + 1] = qs[i + N + 1]
                    /\ key[2 * i + 2] = qs[i + 1]

C13_Witness ==
    /\ Measured
    /\ pc = "done"
    /\ bitstring = <<"0", "1">>
    /\ Support(psi) = {1}
    /\ DOMAIN counts = {<<"0", "1">>}

\* ------------------------------------------ helpers called on their own
MaxLabCalls == 3
RekeyPairs == 2
CountValues == {1, 2}

BasisState(nq, s) == [b \in 0..(Pow2(nq) - 1) |-> IF b = s THEN 1 ELSE 0]

\* counts dictionaries a backend can return, with one key or two distinct
\* keys of one even length
RawCountMaps ==
    UNION {UNION {[{r1, r2} -> CountValues] :
                    r1 \in [1..(2 * n) -> {"0", "1"}],
                    r2 \in [1..(2 * n) -> {"0", "1"}]}
           : n \in 0..RekeyPairs}

\* a fresh circuit over two qubits, which start in a basis state
InitLab ==
    /\ pc = "lab"
    /\ assertsOn = TRUE
    /\ bitstring = <<>>
    /\ bit_list = <<>>
    /\ N = 0
    /\ bit_arr = <<>>
    /\ circuit = [num_qubits |-> 2, num_clbits |-> 0, data |-> <<>>]
    /\ k = 0
    /\ calls = <<>>
    /\ failure = "none"
    /\ n_samples = 0
    /\ ip = 0
    /\ psi = EmptyFcn
    /\ hexp = 0
    /\ clmap = EmptyFcn
    /\ counts = EmptyFcn
    /\ results = EmptyFcn
    /\ canon_in = <<>>
    /\ canon_out = <<>>
    /\ runs = 0
    /\ earlier = NoRun
    /\ lab_start \in 0..3

LabFrame ==
    /\ UNCHANGED <<pc, assertsOn, bitstring, bit_list, N, bit_arr, k, failure>>
    /\ UNCHANGED simVars
    /\ UNCHANGED canonVars
    /\ UNCHANGED extraVars

\* prepare_bell_state(circuit, 0, 1)
LabPrepare ==
    /\ pc = "lab"
    /\ Len(calls) < MaxLabCalls
    /\ circuit' = prepare_bell_state(circuit, 0, 1)
    /\ calls' = Append(calls, Call("prepare_bell_state", <<0, 1>>, circuit, circuit'))
    /\ LabFrame

\* encode_bits(circuit, 0, b0, b1)
LabEncode ==
    /\ pc = "lab"
    /\ Len(calls) < MaxLabCalls
    /\ \E b0 \in {0, 1}, b1 \in {0, 1} :
          /\ circuit' = encode_bits(circuit, 0, b0, b1)
          /\ calls' = Append(calls, Call("encode_bits", <<0, b0, b1>>, circuit, circuit'))
    /\ LabFrame

\* decode_bits(circuit, 0, 1)
LabDecode ==
    /\ pc = "lab"
    /\ Len(calls) < MaxLabCalls
    /\ circuit' = decode_bits(circuit, 0, 1)
    /\ calls' = Append(calls, Call("decode_bits", <<0, 1>>, circuit, circuit'))
    /\ LabFrame

\* the backend starts executing the circuit from the chosen basis state
LabRun ==
    /\ pc = "lab"
    /\ pc' = "running"
    /\ ip' = 1
    /\ psi' = BasisState(circuit.num_qubits, lab_start)
    /\ hexp' = 0
    /\ UNCHANGED <<assertsOn, failure, n_samples, clmap, counts, results>>
    /\ UNCHANGED buildVars
    /\ UNCHANGED canonVars
    /\ UNCHANGED extraVars

\* the dictionary comprehension of simulate_circuit on a backend result
LabRekey ==
    /\ pc = "lab"
    /\ calls = <<>>
    /\ lab_start = 0
    /\ counts' \in RawCountMaps
    /\ results' \in Rekeyings(counts')
    /\ pc' = "rekey_done"
    /\ UNCHANGED <<assertsOn, failure, n_samples, ip, psi, hexp, clmap>>
    /\ UNCHANGED buildVars
    /\ UNCHANGED canonVars
    /\ UNCHANGED extraVars

NextLab ==
    \/ LabPrepare
    \/ LabEncode
    \/ LabDecode
    \/ LabRun
    \/ ExecStep
    \/ LabRekey

SpecLab == InitLab /\ [][NextLab]_vars

\* helper names of the calls made, in order
CallNames == [j \in DOMAIN calls |-> calls[j].fn]

\* C14: prepare_bell_state on two carriers in |00> appends the Hadamard on a
\* and then the controlled-NOT from a to b, and leaves non-zero amplitude on
\* the outcomes 00 and 11 only, of equal magnitude (probability 1/2 each), so
\* both carriers always measure the same bit.
C14_BellStatePrepared ==
    (Measured /\ lab_start = 0 /\ CallNames = <<"prepare_bell_state">>) =>
        /\ circuit.data = <<Gate("h", <<0>>), Gate("cx", <<0, 1>>)>>
        /\ Support(psi) = {0, 3}
        /\ psi[0] * psi[0] = psi[3] * psi[3]
        /\ 2 * psi[0] * psi[0] = Pow2(hexp)
        /\ \A b \in Support(psi) : Bit(b, 0) = Bit(b, 1)

C14_Witness ==
    /\ Measured
    /\ lab_start = 0
    /\ CallNames = <<"prepare_bell_state">>
    /\ psi = (0 :> 1 @@ 1 :> 0 @@ 2 :> 0 @@ 3 :> 1)
    /\ hexp = 1

\* instructions that are gates (neither barrier nor measurement)
GatePositions(c) ==
    {j \in DOMAIN c.data : c.data[j].op \notin {"barrier", "measure"}}

\* C15: in the circuit superdense_coder returns for N pairs, every two-qubit
\* gate has operands (i, i+N) for an i in 0..N-1, every gate touches the
\* qubits of one pair only, and between the first two barriers X is on qubit
\* i exactly when input character 2i is '1' and Z is on qubit i exactly when
\* input character 2i+1 is '1'.
C15_QubitLayout ==
    pc \in BuiltPcs =>
        LET data == circuit.data
            bp == BarrierPositions(circuit)
            first == Min(bp)
            second == Min(bp \ {first})
            encoded == {data[j] : j \in (first + 1)..(second - 1)}
        IN  /\ circuit.num_qubits = 2 * N
            /\ \A j \in GatePositions(circuit) :
                  /\ Len(data[j].qubits) \in {1, 2}
                  /\ \E i \in 0..(N - 1) :
                        /\ Range(data[j].qubits) \subseteq {i, i + N}
                        /\ Len(data[j].qubits) = 2 => data[j].qubits = <<i, i + N>>
            /\ \A i \in 0..(N - 1) :
                  /\ (Gate("x", <<i>>) \in encoded) <=> (bitstring[2 * i + 1] = "1")
                  /\ (Gate("z", <<i>>) \in encoded) <=> (bitstring[2 * i + 2] = "1")
            /\ \A j \in DOMAIN calls :
                  calls[j].fn \in {"prepare_bell_state", "decode_bits"} =>
                      \E i \in 0..(N - 1) : calls[j].args = <<i, i + N>>

C15_Witness ==
    /\ pc = "built"
    /\ bitstring = <<"0", "1", "1", "0", "1", "1">>
    /\ N = 3
    /\ circuit.data[1] = Gate("h", <<0>>)
    /\ circuit.data[6] = Gate("cx", <<2, 5>>)
    /\ circuit.data[8] = Gate("z", <<0>>)
    /\ circuit.data[9] = Gate("x", <<1>>)
    /\ circuit.data[10] = Gate("x", <<2>>)
    /\ circuit.data[11] = Gate("z", <<2>>)

\* C16: every raw backend key r of length 2N (last character = qubit 0)
\* is returned by simulate_circuit under the key k with k[2i] = r[N-1-i] and
\* k[2i+1] = r[2N-1-i] for every i in 0..N-1 (0-based), with its count.
C16_ReversedThenCanonical ==
    pc = "done" =>
        \A r \in DOMAIN counts :
            LET n == Len(r) \div 2
            IN  /\ Len(r) = 2 * N
                /\ \E key \in DOMAIN results :
                      /\ results[key] = counts[r]
                      /\ Len(key) = Len(r)
                      /\ \A i \in 0..(n - 1) :
                            /\ key[2 * i + 1] = r[n - i]
                            /\ key[2 * i + 2] = r[2 * n - i]

C16_Witness ==
    /\ pc = "done"
    /\ DOMAIN counts = {<<"1", "0", "0", "0", "1", "1">>}
    /\ DOMAIN results = {<<"0", "1", "0", "1", "1", "0">>}

\* C17: for a raw counts mapping whose keys are distinct bitstrings of one
\* even length, the mapping simulate_circuit returns has as many entries and
\* the same total count, and no two raw keys get the same canonical key.
C17_RekeyingLosesNothing ==
    pc = "rekey_done" =>
        /\ Cardinality(DOMAIN results) = Cardinality(DOMAIN counts)
        /\ SumCounts(results) = SumCounts(counts)
        /\ \A r1 \in DOMAIN counts, r2 \in DOMAIN counts :
              r1 # r2 => CanonKey(r1) # CanonKey(r2)

C17_Witness ==
    /\ pc = "rekey_done"
    /\ counts = (<<"0", "1", "1", "0">> :> 2 @@ <<"1", "1", "1", "0">> :> 1)
    /\ Cardinality(DOMAIN results) = 2
    /\ SumCounts(results) = 3

\* C18: canonical_bitstring returns a string of length 2*floor(L/2) for an
\* argument of length L: the length is kept for even L, for odd L the last
\* character is dropped (the result is that of the argument without it and
\* does not depend on it), and the empty string gives the empty string.
C18_CanonicalLength ==
    pc = "canon_done" =>
        LET L == Len(canon_in)
        IN  /\ Len(canon_out) = 2 * (L \div 2)
            /\ L % 2 = 0 => Len(canon_out) = L
            /\ L % 2 = 1 =>
                  /\ Len(canon_out) = L - 1
                  /\ canon_out = canonical_bitstring(SubSeq(canon_in, 1, L - 1))
                  /\ \A ch \in Alphabet :
                        canonical_bitstring([canon_in EXCEPT ![L] = ch]) = canon_out
            /\ L = 0 => canon_out = <<>>

C18_Witness ==
    /\ pc = "canon_done"
    /\ canon_in = <<"1", "0", "0", "1", "1">>
    /\ canon_out = <<"0", "1", "1", "0">>

RECURSIVE RunFrom(_, _, _)
\* amplitudes after the backend executed instructions j.. of data on amp
RunFrom(data, j, amp) ==
    IF j > Len(data) THEN amp ELSE RunFrom(data, j + 1, ApplyOp(data[j], amp))

\* C19: a call encode_bits(circuit, q, 1, 1) appends X and then Z on q;
\* with Z before X instead, the state the circuit ends in differs by the sign
\* of every amplitude only, and for prepare_bell_state, encode_bits(1, 1),
\* decode_bits from |00> both orders measure (1, 1) with certainty.
C19_XZOrderOnlyGlobalSign ==
    Measured =>
        \A j \in DOMAIN calls :
            (calls[j].fn = "encode_bits" /\ calls[j].args[2] # 0 /\ calls[j].args[3] # 0) =>
                LET c == calls[j]
                    q == c.args[1]
                    data == circuit.data
                    zx == [data EXCEPT ![c.from] = data[c.to], ![c.to] = data[c.from]]
                    other == RunFrom(zx, 1, BasisState(circuit.num_qubits, lab_start))
                IN  /\ c.to = c.from + 1
                    /\ data[c.from] = Gate("x", <<q>>)
                    /\ data[c.to] = Gate("z", <<q>>)
                    /\ other = [b \in DOMAIN psi |-> 0 - psi[b]]
                    /\ (lab_start = 0 /\ CallNames =
                          <<"prepare_bell_state", "encode_bits", "decode_bits">>) =>
                          /\ Support(psi) = {3}
                          /\ Support(other) = {3}
                          /\ psi[3] * psi[3] = Pow2(hexp)
                          /\ other[3] * other[3] = Pow2(hexp)

C19_Witness ==
    /\ Measured
    /\ lab_start = 0
    /\ CallNames = <<"prepare_bell_state", "encode_bits", "decode_bits">>
    /\ calls[2].args = <<0, 1, 1>>
    /\ psi = (0 :> 0 @@ 1 :> 0 @@ 2 :> 0 @@ 3 :> 2)
    /\ hexp = 2

\* C20: prepare_bell_state(a, b) followed at once by decode_bits(a, b) takes
\* each of the four basis states |xy> back to itself, with amplitude +1.
C20_DecodeInvertsPrepare ==
    (Measured /\ CallNames = <<"prepare_bell_state", "decode_bits">>) =>
        /\ Len(circuit.data) = 4
        /\ hexp = 2
        /\ psi = [b \in 0..3 |-> IF b = lab_start THEN 2 ELSE 0]
        /\ Support(psi) = {lab_start}

C20_Witness ==
    /\ Measured
    /\ lab_start = 2
    /\ CallNames = <<"prepare_bell_state", "decode_bits">>
    /\ circuit.data = <<Gate("h", <<0>>), Gate("cx", <<0, 1>>),
                        Gate("cx", <<0, 1>>), Gate("h", <<0>>)>>
    /\ psi = (0 :> 0 @@ 1 :> 0 @@ 2 :> 2 @@ 3 :> 0)

====
